---- MODULE Spec2Model ----
(***************************************************************************)
(* Model of scripts/build_notes_index.py: the one-shot batch job that      *)
(* scans the category directories under a root, builds one note record per *)
(* "*.html" entry and writes data/notes.json.                              *)
(*                                                                         *)
(* Python strings are modelled as sequences of Unicode code points, so     *)
(* that lower-casing, slugging, pattern matching and the code point order  *)
(* used by str comparison are computed and not assumed.  The text of every *)
(* literal is given in the comment next to it.                             *)
(***************************************************************************)
EXTENDS Integers, Sequences, FiniteSets, TLC

VARIABLES
    tree,        \* the entries directly under root: set of [name, isDir, children]
    pc,          \* position of main(): start, scan, gather, write, writing, done, failed
    err,         \* where the run failed: none, mkdir, scan, write
    discovered,  \* result of discover_categories(root) of the current run
    doc,         \* index_data of the current run (NoDoc before gather_notes returns)
    out,         \* content of data/notes.json: Absent, Truncated or a document
    out_before,  \* content of data/notes.json when the current run started
    prev_doc,    \* index_data of the previous successful run (NoDoc if none)
    runs,        \* number of runs started so far
    clock,       \* wall clock, read by datetime.now() for generatedAt
    stem,        \* input of pretty_title (title specification)
    title,       \* result of pretty_title (title specification)
    tpc          \* position of the title specification: input, done, idle

vars == <<tree, pc, err, discovered, doc, out, out_before, prev_doc, runs,
          clock, stem, title, tpc>>

(***************************************************************************)
(* Bounds of the model.                                                    *)
(***************************************************************************)
MaxDirs == 3     \* entries directly under root in the initial tree
MaxRuns == 2     \* runs of main() over the same tree
MaxDigits == 2   \* length of the digit string of a pretty_title input

(***************************************************************************)
(* Strings as sequences of code points.                                    *)
(***************************************************************************)
IsLowerAscii(c) == c >= 97 /\ c <= 122          \* [a-z]
IsUpperAscii(c) == c >= 65 /\ c <= 90           \* [A-Z]
IsDigit(c) == c >= 48 /\ c <= 57                \* [0-9], \d on ASCII input
Whitespace == {9, 10, 11, 12, 13, 32}           \* what str.strip() removes on ASCII input

LowerChar(c) == IF IsUpperAscii(c) THEN c + 32 ELSE c
UpperChar(c) == IF IsLowerAscii(c) THEN c - 32 ELSE c

\* str.lower() / str.upper()
Lower(s) == [i \in 1..Len(s) |-> LowerChar(s[i])]
Upper(s) == [i \in 1..Len(s) |-> UpperChar(s[i])]

\* str.replace(old, new) for one-character old and new
Replace(s, old, new) == [i \in 1..Len(s) |-> IF s[i] = old THEN new ELSE s[i]]

\* Remove the leading / trailing characters of s that are in drop.
RECURSIVE LStrip(_, _)
LStrip(s, drop) ==
    IF s # <<>> /\ Head(s) \in drop THEN LStrip(Tail(s), drop) ELSE s

RECURSIVE RStrip(_, _)
RStrip(s, drop) ==
    IF s # <<>> /\ s[Len(s)] \in drop THEN RStrip(SubSeq(s, 1, Len(s) - 1), drop) ELSE s

\* str.strip() and str.strip("-")
Strip(s) == RStrip(LStrip(s, Whitespace), Whitespace)
StripHyphens(s) == RStrip(LStrip(s, {45}), {45})

StartsWith(s, p) == Len(s) >= Len(p) /\ SubSeq(s, 1, Len(p)) = p
EndsWith(s, p) == Len(s) >= Len(p) /\ SubSeq(s, Len(s) - Len(p) + 1, Len(s)) = p
AllDigits(s) == \A i \in 1..Len(s) : IsDigit(s[i])

\* Python's order on str: lexicographic by code point.  The first position
\* where the strings differ decides; without one, the shorter string is less.
StrLess(a, b) ==
    LET common == IF Len(a) < Len(b) THEN Len(a) ELSE Len(b)
        differ == {i \in 1..common : a[i] # b[i]}
    IN  IF differ = {} THEN Len(a) < Len(b)
        ELSE LET first == CHOOSE i \in differ : \A j \in differ : i <= j
             IN  a[first] < b[first]

StrLeq(a, b) == a = b \/ StrLess(a, b)

\* int(digits): value of a decimal digit string (leading zeros vanish)
RECURSIVE ParseInt(_)
ParseInt(s) ==
    IF s = <<>> THEN 0
    ELSE 10 * ParseInt(SubSeq(s, 1, Len(s) - 1)) + (s[Len(s)] - 48)

\* f"{n}": decimal digits of a natural number
RECURSIVE FormatInt(_)
FormatInt(n) ==
    IF n < 10 THEN <<48 + n>>
    ELSE FormatInt(n \div 10) \o <<48 + (n % 10)>>

\* re.sub(r"[^a-z0-9]+", "-", s): every maximal run of other characters
\* becomes one hyphen.  inRun says that the previous character was replaced.
IsSlugChar(c) == IsLowerAscii(c) \/ IsDigit(c)

RECURSIVE SubNonSlug(_, _)
SubNonSlug(s, inRun) ==
    IF s = <<>> THEN <<>>
    ELSE IF IsSlugChar(Head(s)) THEN <<Head(s)>> \o SubNonSlug(Tail(s), FALSE)
    ELSE IF inRun THEN SubNonSlug(Tail(s), TRUE)
    ELSE <<45>> \o SubNonSlug(Tail(s), TRUE)

(***************************************************************************)
(* Module constants of the script.                                         *)
(***************************************************************************)
\* "TimeSeries" -> "时间序列", "Diffusion" -> "扩散模型",
\* "RandomProcess" -> "随机过程", "StochasticProcess" -> "随机过程"
CATEGORY_NAME_OVERRIDES ==
    (<<84, 105, 109, 101, 83, 101, 114, 105, 101, 115>>
        :> <<26102, 38388, 24207, 21015>>)
    @@ (<<68, 105, 102, 102, 117, 115, 105, 111, 110>>
        :> <<25193, 25955, 27169, 22411>>)
    @@ (<<82, 97, 110, 100, 111, 109, 80, 114, 111, 99, 101, 115, 115>>
        :> <<38543, 26426, 36807, 31243>>)
    @@ (<<83, 116, 111, 99, 104, 97, 115, 116, 105, 99, 80, 114, 111, 99, 101, 115, 115>>
        :> <<38543, 26426, 36807, 31243>>)

\* ["timeseries", "diffusion", "randomprocess", "stochasticprocess"]
CATEGORY_ORDER_HINTS ==
    << <<116, 105, 109, 101, 115, 101, 114, 105, 101, 115>>,
       <<100, 105, 102, 102, 117, 115, 105, 111, 110>>,
       <<114, 97, 110, 100, 111, 109, 112, 114, 111, 99, 101, 115, 115>>,
       <<115, 116, 111, 99, 104, 97, 115, 116, 105, 99, 112, 114, 111, 99, 101, 115, 115>> >>

\* {".git", "__pycache__", "assets", "data", "scripts"}
IGNORED_DIRS ==
    { <<46, 103, 105, 116>>,
      <<95, 95, 112, 121, 99, 97, 99, 104, 101, 95, 95>>,
      <<97, 115, 115, 101, 116, 115>>,
      <<100, 97, 116, 97>>,
      <<115, 99, 114, 105, 112, 116, 115>> }

DataName == <<100, 97, 116, 97>>                                    \* "data"
NotesJsonName == <<110, 111, 116, 101, 115, 46, 106, 115, 111, 110>> \* "notes.json"
AllKey == <<97, 108, 108>>                                          \* "all"
AllName == <<20840, 37096>>                                         \* "全部"
HtmlSuffix == <<46, 104, 116, 109, 108>>                            \* ".html"

(***************************************************************************)
(* pretty_title                                                            *)
(***************************************************************************)
\* Variant of ChapterDigits in which the pattern is chap(?:ter|er)?(\d+):
\* the letters after "chap" are optional.
ChapterDigits_optional(s) ==
    LET l == Lower(s)
        rest(p) == SubSeq(s, Len(p) + 1, Len(s))
        ok(p) == StartsWith(l, p) /\ rest(p) # <<>> /\ AllDigits(rest(p))
        chapter == <<99, 104, 97, 112, 116, 101, 114>>   \* "chapter"
        chaper == <<99, 104, 97, 112, 101, 114>>         \* "chaper"
        chap == <<99, 104, 97, 112>>                     \* "chap"
    IN  IF ok(chapter) THEN rest(chapter)
        ELSE IF ok(chaper) THEN rest(chaper)
        ELSE IF ok(chap) THEN rest(chap)
        ELSE <<>>

\* re.fullmatch(r"chap(?:ter|er)(\d+)", stem, re.IGNORECASE): the digits
\* of the match, or <<>> when the stem does not match.
ChapterDigits(s) ==
    LET l == Lower(s)
        rest(p) == SubSeq(s, Len(p) + 1, Len(s))
        chapter == <<99, 104, 97, 112, 116, 101, 114>>   \* "chapter"
        chaper == <<99, 104, 97, 112, 101, 114>>         \* "chaper"
    IN  IF StartsWith(l, chapter) /\ rest(chapter) # <<>> /\ AllDigits(rest(chapter))
            THEN rest(chapter)
        ELSE IF StartsWith(l, chaper) /\ rest(chaper) # <<>> /\ AllDigits(rest(chaper))
            THEN rest(chaper)
        ELSE <<>>

\* re.fullmatch(r"diffusion[-_ ]?(\d+)", stem, re.IGNORECASE): the digits
\* of the match, or <<>> when the stem does not match.
DiffusionDigits(s) ==
    LET l == Lower(s)
        diffusion == <<100, 105, 102, 102, 117, 115, 105, 111, 110>>  \* "diffusion"
        rest == SubSeq(s, Len(diffusion) + 1, Len(s))
        afterSep == IF rest # <<>> /\ Head(rest) \in {45, 95, 32} THEN Tail(rest) ELSE rest
    IN  IF StartsWith(l, diffusion) /\ afterSep # <<>> /\ AllDigits(afterSep)
            THEN afterSep
        ELSE <<>>

pretty_title(s) ==
    IF ChapterDigits(s) # <<>>
        THEN <<31532>> \o FormatInt(ParseInt(ChapterDigits(s))) \o <<31456>>  \* "第N章"
    ELSE IF DiffusionDigits(s) # <<>>
        THEN <<68, 105, 102, 102, 117, 115, 105, 111, 110, 32>>               \* "Diffusion "
             \o FormatInt(ParseInt(DiffusionDigits(s)))
    ELSE IF Upper(s) = <<86, 65, 69>>                                         \* "VAE"
        THEN <<86, 65, 69>>
    ELSE Strip(Replace(Replace(s, 95, 32), 45, 32))

(***************************************************************************)
(* Category key and display name                                           *)
(***************************************************************************)
\* hashlib.md5(name.encode("utf-8")).hexdigest()[:8], tabulated for the
\* directory names of the model whose slug is empty: md5("_") = b14a7b80...
Md5Hex8(name) ==
    CASE name = <<95>> -> <<98, 49, 52, 97, 55, 98, 56, 48>>

\* re.sub(r"[^a-z0-9]+", "-", text).strip("-")
Slug(text) == StripHyphens(SubNonSlug(text, FALSE))

slugify_category_key(name) ==
    LET key == Slug(Lower(name))
    IN  IF key # <<>> THEN key
        ELSE <<99, 97, 116, 45>> \o Md5Hex8(name)      \* "cat-" + fallback

\* re.sub(r"([a-z0-9])([A-Z])", r"\1 \2", s): a match consumes both
\* characters, the scan goes on after it.
RECURSIVE CamelSpaces(_)
CamelSpaces(s) ==
    IF Len(s) < 2 THEN s
    ELSE IF IsSlugChar(s[1]) /\ IsUpperAscii(s[2])
        THEN <<s[1], 32, s[2]>> \o CamelSpaces(SubSeq(s, 3, Len(s)))
    ELSE <<s[1]>> \o CamelSpaces(Tail(s))

prettify_category_name(name) ==
    IF name \in DOMAIN CATEGORY_NAME_OVERRIDES THEN CATEGORY_NAME_OVERRIDES[name]
    ELSE LET with_spaces == Strip(Replace(Replace(CamelSpaces(name), 95, 32), 45, 32))
         IN  IF with_spaces # <<>> THEN with_spaces ELSE name

(***************************************************************************)
(* list.sort / sorted: a stable sort on a key.  Keys are pairs             *)
(* <<integer, string>>, compared as Python compares tuples.                *)
(***************************************************************************)
KeyLess(a, b) == a[1] < b[1] \/ (a[1] = b[1] /\ StrLess(a[2], b[2]))

\* x goes behind every element whose key is not greater: equal keys keep
\* the order in which they were inserted.
RECURSIVE InsertAsc(_, _)
InsertAsc(x, s) ==
    IF s = <<>> THEN <<x>>
    ELSE IF KeyLess(x.key, Head(s).key) THEN <<x>> \o s
    ELSE <<Head(s)>> \o InsertAsc(x, Tail(s))

RECURSIVE SortAsc(_)
SortAsc(s) ==
    IF s = <<>> THEN <<>>
    ELSE InsertAsc(s[Len(s)], SortAsc(SubSeq(s, 1, Len(s) - 1)))

\* reverse=True: descending, and equal keys still keep their original order.
RECURSIVE InsertDesc(_, _)
InsertDesc(x, s) ==
    IF s = <<>> THEN <<x>>
    ELSE IF KeyLess(Head(s).key, x.key) THEN <<x>> \o s
    ELSE <<Head(s)>> \o InsertDesc(x, Tail(s))

RECURSIVE SortDesc(_)
SortDesc(s) ==
    IF s = <<>> THEN <<>>
    ELSE InsertDesc(s[Len(s)], SortDesc(SubSeq(s, 1, Len(s) - 1)))

Items(s) == [i \in 1..Len(s) |-> s[i].item]

(***************************************************************************)
(* The file system under root                                              *)
(***************************************************************************)
\* directory.glob("*.html"): every entry of the directory, file or
\* directory, whose name ends in ".html" (case-sensitive).
GlobHtml(dir) == {c \in dir.children : EndsWith(c.name, HtmlSuffix)}

\* Path.stem: the name without its last suffix; a dot at the first or the
\* last position starts no suffix.
LastDot(name) ==
    LET dots == {i \in 1..Len(name) : name[i] = 46}
    IN  IF dots = {} THEN 0 ELSE CHOOSE i \in dots : \A j \in dots : j <= i

Stem(name) ==
    IF LastDot(name) > 1 /\ LastDot(name) < Len(name)
        THEN SubSeq(name, 1, LastDot(name) - 1)
    ELSE name

\* The sequences that enumerate a finite set once each: the orders in which
\* iterdir() or glob() may yield the entries.
RECURSIVE Enumerations(_)
Enumerations(S) ==
    IF S = {} THEN {<<>>}
    ELSE UNION {{<<x>> \o rest : rest \in Enumerations(S \ {x})} : x \in S}

(***************************************************************************)
(* discover_categories                                                     *)
(***************************************************************************)
\* The while loop: the first key of base, base-2, base-3, ... not yet used.
RECURSIVE NextFreeKey(_, _, _, _)
NextFreeKey(base_key, key, suffix, used_keys) ==
    IF key \in used_keys
        THEN NextFreeKey(base_key, base_key \o <<45>> \o FormatInt(suffix), suffix + 1, used_keys)
    ELSE key

\* Variant of unique_key without the while loop: the base key is taken as is.
unique_key_unchecked(base_key, used_keys) == base_key

unique_key(base_key, used_keys) == NextFreeKey(base_key, base_key, 2, used_keys)

\* The three filters of the loop.
is_category_dir(directory) ==
    /\ directory.isDir
    /\ ~(StartsWith(directory.name, <<46>>) \/ directory.name \in IGNORED_DIRS)
    /\ GlobHtml(directory) # {}

\* The entry of the directory fs that a path names.
Entry(fs, name) == CHOOSE e \in fs : e.name = name

\* The for loop over the sorted paths; acc is [discovered, used_keys].
RECURSIVE DiscoverLoop(_, _, _)
DiscoverLoop(fs, dirs, acc) ==
    IF dirs = <<>> THEN acc.discovered
    ELSE LET directory == Entry(fs, Head(dirs))
             key == unique_key(slugify_category_key(directory.name), acc.used_keys)
         IN  IF ~is_category_dir(directory) THEN DiscoverLoop(fs, Tail(dirs), acc)
             ELSE DiscoverLoop(fs, Tail(dirs),
                     [discovered |-> Append(acc.discovered,
                                        [key |-> key,
                                         name |-> prettify_category_name(directory.name),
                                         dir |-> directory]),
                      used_keys |-> acc.used_keys \cup {key}])

\* CATEGORY_ORDER_HINTS.index(key), counted from 0
HintIndex(key) == (CHOOSE i \in 1..Len(CATEGORY_ORDER_HINTS) : CATEGORY_ORDER_HINTS[i] = key) - 1

IsHint(key) == \E i \in 1..Len(CATEGORY_ORDER_HINTS) : CATEGORY_ORDER_HINTS[i] = key

\* Variant of sort_key that breaks ties by the key instead of the name.
sort_key_by_key(item) ==
    IF IsHint(item.key) THEN <<HintIndex(item.key), item.key>>
    ELSE <<Len(CATEGORY_ORDER_HINTS), item.key>>

sort_key(item) ==
    IF IsHint(item.key) THEN <<HintIndex(item.key), Lower(item.name)>>
    ELSE <<Len(CATEGORY_ORDER_HINTS), Lower(item.name)>>

\* The names of the entries of a directory, which iterdir() yields in an
\* order of its own.
Names(fs) == {e.name : e \in fs}

\* sorted(root.iterdir(), key=lambda item: item.name.lower()); iterdir is
\* the sequence of names in the order in which root.iterdir() yields them.
sorted_entries(iterdir) ==
    Items(SortAsc([i \in 1..Len(iterdir) |->
              [key |-> <<0, Lower(iterdir[i])>>, item |-> iterdir[i]]]))

\* The loop over the sorted paths and the final discovered.sort(key=sort_key).
categories_of(fs, sorted_dirs) ==
    LET found == DiscoverLoop(fs, sorted_dirs, [discovered |-> <<>>, used_keys |-> {}])
    IN  Items(SortAsc([i \in 1..Len(found) |-> [key |-> sort_key(found[i]), item |-> found[i]]]))

\* fs is the root directory, iterdir an enumeration of Names(fs).
discover_categories(fs, iterdir) == categories_of(fs, sorted_entries(iterdir))

(***************************************************************************)
(* build_note and gather_notes                                             *)
(***************************************************************************)
build_note(directory, html_file, category_key, category_name) ==
    [id |-> Slug(category_key \o <<45>> \o Lower(Stem(html_file.name))),
     title |-> pretty_title(Stem(html_file.name)),
     fileName |-> html_file.name,
     path |-> directory.name \o <<47>> \o html_file.name,
     category |-> category_key,
     categoryName |-> category_name,
     updatedAtTs |-> html_file.mtime]

\* sorted(target_dir.glob("*.html")): paths of one directory compare by name.
sorted_html_files(directory) ==
    LET files == CHOOSE f \in Enumerations(Names(GlobHtml(directory))) : TRUE
        sorted_names == Items(SortAsc([i \in 1..Len(files) |-> [key |-> <<0, files[i]>>, item |-> files[i]]]))
    IN  [i \in 1..Len(sorted_names) |-> Entry(directory.children, sorted_names[i])]

\* Variant of note_sort_key that breaks ties by the id instead of the title.
note_sort_key_by_id(note) == <<note.updatedAtTs, note.id>>

\* key of notes.sort(..., reverse=True)
note_sort_key(note) == <<note.updatedAtTs, note.title>>

\* Variant of category_count that counts regular files only.
category_count_regular_files(html_files) ==
    Cardinality({i \in 1..Len(html_files) : ~html_files[i].isDir})

\* len(html_files), the value stored in counts[category_key]
category_count(html_files) == Len(html_files)

\* The for loop over the categories; acc is [notes, counts, categories_meta].
RECURSIVE GatherLoop(_, _)
GatherLoop(cats, acc) ==
    IF cats = <<>> THEN acc
    ELSE LET cat == Head(cats)
             html_files == sorted_html_files(cat.dir)
         IN  GatherLoop(Tail(cats),
                 [notes |-> acc.notes \o [i \in 1..Len(html_files) |->
                                build_note(cat.dir, html_files[i], cat.key, cat.name)],
                  counts |-> (cat.key :> category_count(html_files)) @@ acc.counts,
                  categories_meta |-> Append(acc.categories_meta, [key |-> cat.key, name |-> cat.name])])

\* counts.get(category_key, 0)
CountOf(counts, key) == IF key \in DOMAIN counts THEN counts[key] ELSE 0

EmptyCounts == [k \in {} |-> 0]

\* The categories list: the synthetic "all" entry, then one entry per
\* element of categories_meta.
category_summary(categories_meta, counts, total) ==
    <<[key |-> AllKey, name |-> AllName, count |-> total]>>
    \o [i \in 1..Len(categories_meta) |->
          [key |-> categories_meta[i].key,
           name |-> categories_meta[i].name,
           count |-> CountOf(counts, categories_meta[i].key)]]

\* cats is the list discover_categories returned, now the local time.
gather_notes(cats, now) ==
    LET acc == GatherLoop(cats, [notes |-> <<>>, counts |-> EmptyCounts, categories_meta |-> <<>>])
        notes == Items(SortDesc([i \in 1..Len(acc.notes) |->
                     [key |-> note_sort_key(acc.notes[i]), item |-> acc.notes[i]]]))
        categories == category_summary(acc.categories_meta, acc.counts, Len(notes))
    IN  [generatedAt |-> now,
         total |-> Len(notes),
         categories |-> categories,
         notes |-> notes]

(***************************************************************************)
(* The directory trees of the model                                        *)
(***************************************************************************)
File(name, mtime) == [name |-> name, isDir |-> FALSE, mtime |-> mtime]
SubDir(name, mtime) == [name |-> name, isDir |-> TRUE, mtime |-> mtime]
Dir(name, children) == [name |-> name, isDir |-> TRUE, children |-> children]
RegularFile(name) == [name |-> name, isDir |-> FALSE, children |-> {}]

F_x_y == <<120, 45, 121, 46, 104, 116, 109, 108>>                       \* "x-y.html"
F_x_y_underscore == <<120, 95, 121, 46, 104, 116, 109, 108>>            \* "x_y.html"
F_vae == <<118, 97, 101, 46, 104, 116, 109, 108>>                       \* "vae.html"
F_chap03 == <<99, 104, 97, 112, 48, 51, 46, 104, 116, 109, 108>>        \* "chap03.html"
F_chapter3 == <<99, 104, 97, 112, 116, 101, 114, 51, 46, 104, 116, 109, 108>>  \* "chapter3.html"
F_my_notes_v2 == <<109, 121, 95, 110, 111, 116, 101, 115, 45, 118, 50, 46, 104, 116, 109, 108>>  \* "my_notes-v2.html"
F_diffusion_7 == <<100, 105, 102, 102, 117, 115, 105, 111, 110, 45, 55, 46, 104, 116, 109, 108>>  \* "diffusion-7.html"
F_d == <<100, 46, 104, 116, 109, 108>>                                  \* "d.html"
F_n_upper == <<110, 46, 72, 84, 77, 76>>                                \* "n.HTML"
F_index == <<105, 46, 104, 116, 109, 108>>                              \* "i.html"

\* The entries a root can hold: category directories with colliding and
\* suffixed slugs, a reserved key, a camel-case name, priority names,
\* hidden and ignored names, a slug that is empty, plain files, and
\* directories without any regular "*.html" file.
RootEntryPool ==
    { Dir(<<97>>, {File(F_x_y, 1), File(F_x_y_underscore, 1)}),                \* a/
      Dir(<<65>>, {File(F_vae, 1), File(F_chap03, 2)}),                        \* A/
      Dir(<<97, 45, 50>>, {File(F_x_y, 2)}),                                   \* a-2/
      Dir(<<97, 77>>, {File(F_my_notes_v2, 1)}),                               \* aM/
      Dir(<<97, 108, 108>>, {File(F_chapter3, 1)}),                            \* all/
      Dir(<<84, 105, 109, 101, 83, 101, 114, 105, 101, 115>>,
          {File(F_chapter3, 2), SubDir(F_d, 1)}),                              \* TimeSeries/
      Dir(<<68, 105, 102, 102, 117, 115, 105, 111, 110>>, {File(F_diffusion_7, 1)}),  \* Diffusion/
      Dir(<<46, 120>>, {File(F_x_y, 1)}),                                      \* .x/
      Dir(<<97, 115, 115, 101, 116, 115>>, {File(F_x_y, 1)}),                  \* assets/
      RegularFile(F_index),                                                    \* i.html (a file)
      RegularFile(DataName),                                                   \* data (a file)
      Dir(<<115>>, {SubDir(F_d, 1)}),                                          \* s/ (only d.html/)
      Dir(<<117>>, {File(F_n_upper, 1)}),                                      \* u/ (only n.HTML)
      Dir(<<95>>, {File(F_vae, 2)}) }                                          \* _/

Trees == {t \in SUBSET RootEntryPool : Cardinality(t) <= MaxDirs}

\* Inputs of pretty_title: a prefix followed by at most MaxDigits digits.
StemPrefixes ==
    { <<99, 104, 97, 112>>,                                  \* "chap"
      <<99, 104, 97, 112, 116, 101, 114>>,                   \* "chapter"
      <<99, 104, 97, 112, 101, 114>>,                        \* "chaper"
      <<67, 104, 97, 112, 116, 101, 114>>,                   \* "Chapter"
      <<100, 105, 102, 102, 117, 115, 105, 111, 110>>,       \* "diffusion"
      <<100, 105, 102, 102, 117, 115, 105, 111, 110, 45>>,   \* "diffusion-"
      <<100, 105, 102, 102, 117, 115, 105, 111, 110, 95>>,   \* "diffusion_"
      <<68, 105, 102, 102, 117, 115, 105, 111, 110, 32>>,    \* "Diffusion "
      <<118, 97, 101>>,                                      \* "vae"
      <<86, 97, 101>>,                                       \* "Vae"
      <<109, 121, 95, 110, 111, 116, 101, 115, 45, 118>>,    \* "my_notes-v"
      <<45, 120, 95>> }                                      \* "-x_"

StemDigits == {48, 50, 51, 55}                               \* "0", "2", "3", "7"

DigitStrings == UNION {[1..n -> StemDigits] : n \in 0..MaxDigits}

Stems == {p \o d : p \in StemPrefixes, d \in DigitStrings}

(***************************************************************************)
(* main()                                                                  *)
(***************************************************************************)
NoDoc == [none |-> TRUE]
Absent == [absent |-> TRUE]
Truncated == [truncated |-> TRUE]

DataEntries == {e \in tree : e.name = DataName}

Init ==
    /\ tree \in Trees
    /\ pc = "start"
    /\ err = "none"
    /\ discovered = <<>>
    /\ doc = NoDoc
    /\ out = Absent
    /\ out_before = Absent
    /\ prev_doc = NoDoc
    /\ runs = 1
    /\ clock = 1
    /\ stem = <<>>
    /\ title = <<>>
    /\ tpc = "idle"

\* Variant of Mkdir that also opens the output file for writing, before the
\* scan has started.
Mkdir_and_open ==
    /\ pc = "start"
    /\ IF \E e \in DataEntries : ~e.isDir
          THEN /\ pc' = "failed"
               /\ err' = "mkdir"
               /\ tree' = tree
               /\ out' = out
          ELSE /\ pc' = "scan"
               /\ err' = err
               /\ tree' = IF DataEntries = {} THEN tree \cup {Dir(DataName, {})} ELSE tree
               /\ out' = Truncated
    /\ UNCHANGED <<discovered, doc, out_before, prev_doc, runs, clock, stem, title, tpc>>

\* output_file.parent.mkdir(parents=True, exist_ok=True): creates data/ if
\* it is missing, raises FileExistsError if data is not a directory.
Mkdir ==
    /\ pc = "start"
    /\ IF \E e \in DataEntries : ~e.isDir
          THEN /\ pc' = "failed"
               /\ err' = "mkdir"
               /\ tree' = tree
          ELSE /\ pc' = "scan"
               /\ err' = err
               /\ tree' = IF DataEntries = {} THEN tree \cup {Dir(DataName, {})} ELSE tree
    /\ UNCHANGED <<discovered, doc, out, out_before, prev_doc, runs, clock, stem, title, tpc>>

\* discover_categories(root), for any order in which iterdir() yields.
Discover ==
    /\ pc = "scan"
    /\ \E sorted_dirs \in {sorted_entries(iterdir) : iterdir \in Enumerations(Names(tree))} :
          discovered' = categories_of(tree, sorted_dirs)
    /\ pc' = "gather"
    /\ UNCHANGED <<tree, err, doc, out, out_before, prev_doc, runs, clock, stem, title, tpc>>

\* The rest of gather_notes(root): notes, counts and the document.
Gather ==
    /\ pc = "gather"
    /\ doc' = gather_notes(discovered, clock)
    /\ pc' = "write"
    /\ UNCHANGED <<tree, err, discovered, out, out_before, prev_doc, runs, clock, stem, title, tpc>>

\* An OSError raised by iterdir, is_dir, glob or stat is not caught: the
\* process ends and its local values are gone.
FsError ==
    /\ pc \in {"scan", "gather"}
    /\ pc' = "failed"
    /\ err' = "scan"
    /\ discovered' = <<>>
    /\ UNCHANGED <<tree, doc, out, out_before, prev_doc, runs, clock, stem, title, tpc>>

\* write_text, first half: open(..., "w") creates or truncates the file.
WriteOpen ==
    /\ pc = "write"
    /\ out' = Truncated
    /\ tree' = {IF e.name = DataName
                   THEN Dir(DataName, {c \in e.children : c.name # NotesJsonName}
                                          \cup {File(NotesJsonName, clock)})
                   ELSE e : e \in tree}
    /\ pc' = "writing"
    /\ UNCHANGED <<err, discovered, doc, out_before, prev_doc, runs, clock, stem, title, tpc>>

\* write_text, second half: the serialized document reaches the file.
WriteData ==
    /\ pc = "writing"
    /\ out' = doc
    /\ pc' = "done"
    /\ UNCHANGED <<tree, err, discovered, doc, out_before, prev_doc, runs, clock, stem, title, tpc>>

\* An OSError raised by open or write is not caught either.
WriteError ==
    /\ pc \in {"write", "writing"}
    /\ pc' = "failed"
    /\ err' = "write"
    /\ discovered' = <<>>
    /\ doc' = NoDoc
    /\ UNCHANGED <<tree, out, out_before, prev_doc, runs, clock, stem, title, tpc>>

\* The script is started again on the tree the previous run left behind.
Rerun ==
    /\ pc \in {"done", "failed"}
    /\ runs < MaxRuns
    /\ pc' = "start"
    /\ err' = "none"
    /\ discovered' = <<>>
    /\ doc' = NoDoc
    /\ prev_doc' = IF pc = "done" THEN doc ELSE prev_doc
    /\ out_before' = out
    /\ runs' = runs + 1
    /\ clock' = clock + 1
    /\ UNCHANGED <<tree, out, stem, title, tpc>>

Next ==
    \/ Mkdir
    \/ Discover
    \/ Gather
    \/ FsError
    \/ WriteOpen
    \/ WriteData
    \/ WriteError
    \/ Rerun

Spec == Init /\ [][Next]_vars

(***************************************************************************)
(* pretty_title applied to one stem                                        *)
(***************************************************************************)
InitTitle ==
    /\ tree = {}
    /\ pc = "idle"
    /\ err = "none"
    /\ discovered = <<>>
    /\ doc = NoDoc
    /\ out = Absent
    /\ out_before = Absent
    /\ prev_doc = NoDoc
    /\ runs = 1
    /\ clock = 1
    /\ stem \in Stems
    /\ title = <<>>
    /\ tpc = "input"

ApplyTitle ==
    /\ tpc = "input"
    /\ title' = pretty_title(stem)
    /\ tpc' = "done"
    /\ UNCHANGED <<tree, pc, err, discovered, doc, out, out_before, prev_doc, runs, clock, stem>>

NextTitle == ApplyTitle

SpecTitle == InitTitle /\ [][NextTitle]_vars

(***************************************************************************)
(* Properties                                                              *)
(***************************************************************************)

\* C1: the document has total = len(notes), and the counts of the
\* categories entries whose key is not "all" add up to total.
C1_CountsSumToTotal ==
    doc # NoDoc =>
        LET RECURSIVE SumCounts(_)
            SumCounts(cs) ==
                IF cs = <<>> THEN 0
                ELSE (IF Head(cs).key # AllKey THEN Head(cs).count ELSE 0) + SumCounts(Tail(cs))
        IN  /\ doc.total = Len(doc.notes)
            /\ SumCounts(doc.categories) = doc.total

\* C2: no two categories returned by discover_categories share a key, and
\* every key is the slug of its directory name, or that slug followed by
\* -2, -3, ...
C2_UniqueKeys ==
    /\ \A i, j \in 1..Len(discovered) :
          i # j => discovered[i].key # discovered[j].key
    /\ \A i \in 1..Len(discovered) :
          LET base_key == slugify_category_key(discovered[i].dir.name)
          IN  \/ discovered[i].key = base_key
              \/ \E n \in 2..(Len(discovered) + 1) :
                    discovered[i].key = base_key \o <<45>> \o FormatInt(n)

\* Directories a, A and a-2 were discovered: two names with the same slug
\* and one that looks like a suffixed key.
C2_Witness ==
    /\ pc = "gather"
    /\ {discovered[i].key : i \in 1..Len(discovered)}
          = { <<97>>, <<97, 45, 50>>, <<97, 45, 50, 45, 50>> }    \* "a", "a-2", "a-2-2"

\* C3: discover_categories returns directories only, none whose name
\* starts with "." or is ignored, and none without a regular file whose
\* name ends in ".html".
C3_OnlyDirsWithHtmlFiles ==
    \A i \in 1..Len(discovered) :
        LET directory == discovered[i].dir
        IN  /\ directory.isDir
            /\ ~StartsWith(directory.name, <<46>>)
            /\ directory.name \notin IGNORED_DIRS
            /\ \E c \in directory.children : ~c.isDir /\ EndsWith(c.name, HtmlSuffix)

\* C4 as stated: priority keys first and in the order of the priority
\* list, the other categories ordered by their directory name, lower-cased.
C4_OrderedByDirectoryName ==
    \A i, j \in 1..Len(discovered) :
        i < j =>
            LET ci == discovered[i]
                cj == discovered[j]
            IN  /\ IsHint(cj.key) => IsHint(ci.key)
                /\ (IsHint(ci.key) /\ IsHint(cj.key)) => HintIndex(ci.key) < HintIndex(cj.key)
                /\ (~IsHint(ci.key) /\ ~IsHint(cj.key))
                      => StrLeq(Lower(ci.dir.name), Lower(cj.dir.name))

\* C4 (amended): priority keys first and in the order of the priority
\* list, the other categories ordered by their display name, lower-cased.
C4_OrderedByDisplayName ==
    \A i, j \in 1..Len(discovered) :
        i < j =>
            LET ci == discovered[i]
                cj == discovered[j]
            IN  /\ IsHint(cj.key) => IsHint(ci.key)
                /\ (IsHint(ci.key) /\ IsHint(cj.key)) => HintIndex(ci.key) < HintIndex(cj.key)
                /\ (~IsHint(ci.key) /\ ~IsHint(cj.key))
                      => StrLeq(Lower(ci.name), Lower(cj.name))

\* TimeSeries, aM and all were discovered, in this order: a priority
\* category, then "a M" before "all".
C4_Witness ==
    /\ pc = "gather"
    /\ Len(discovered) = 3
    /\ discovered[1].key = CATEGORY_ORDER_HINTS[1]
    /\ discovered[2].dir.name = <<97, 77>>            \* "aM"
    /\ discovered[3].dir.name = <<97, 108, 108>>      \* "all"

\* C5: notes is ordered by (updatedAtTs, title) descending.
C5_NotesSorted ==
    doc # NoDoc =>
        \A i, j \in 1..Len(doc.notes) :
            i < j =>
                /\ doc.notes[i].updatedAtTs >= doc.notes[j].updatedAtTs
                /\ doc.notes[i].updatedAtTs = doc.notes[j].updatedAtTs
                      => StrLeq(doc.notes[j].title, doc.notes[i].title)

\* A document with two notes of one timestamp and different titles, and a
\* third note with another timestamp.
C5_Witness ==
    /\ doc # NoDoc
    /\ \E i, j, k \in 1..Len(doc.notes) :
          /\ i < j
          /\ doc.notes[i].updatedAtTs = doc.notes[j].updatedAtTs
          /\ doc.notes[i].title # doc.notes[j].title
          /\ doc.notes[k].updatedAtTs # doc.notes[i].updatedAtTs

\* C6: a second run over the tree the first run left behind returns the
\* same document, generatedAt apart, whatever order iterdir() yields.
C6_RerunSameDocument ==
    (doc # NoDoc /\ prev_doc # NoDoc) =>
        [doc EXCEPT !.generatedAt = 0] = [prev_doc EXCEPT !.generatedAt = 0]

\* C7 as stated: the five titles of the specification.
C7_TitlesAsStated ==
    tpc = "done" =>
        /\ stem = <<99, 104, 97, 112, 116, 101, 114, 51>>                         \* "chapter3"
              => title = <<31532, 51, 31456>>                                     \* "第3章"
        /\ stem = <<99, 104, 97, 112, 48, 51>>                                    \* "chap03"
              => title = <<31532, 51, 31456>>                                     \* "第3章"
        /\ stem = <<100, 105, 102, 102, 117, 115, 105, 111, 110, 45, 55>>         \* "diffusion-7"
              => title = <<68, 105, 102, 102, 117, 115, 105, 111, 110, 32, 55>>   \* "Diffusion 7"
        /\ stem = <<118, 97, 101>>                                                \* "vae"
              => title = <<86, 65, 69>>                                           \* "VAE"
        /\ stem = <<109, 121, 95, 110, 111, 116, 101, 115, 45, 118, 50>>          \* "my_notes-v2"
              => title = <<109, 121, 32, 110, 111, 116, 101, 115, 32, 118, 50>>   \* "my notes v2"

\* C7 (amended): as stated, except that "chap03" is no chapter name and
\* is returned unchanged.
C7_Titles ==
    tpc = "done" =>
        /\ stem = <<99, 104, 97, 112, 116, 101, 114, 51>>                         \* "chapter3"
              => title = <<31532, 51, 31456>>                                     \* "第3章"
        /\ stem = <<99, 104, 97, 112, 48, 51>>                                    \* "chap03"
              => title = <<99, 104, 97, 112, 48, 51>>                             \* "chap03"
        /\ stem = <<100, 105, 102, 102, 117, 115, 105, 111, 110, 45, 55>>         \* "diffusion-7"
              => title = <<68, 105, 102, 102, 117, 115, 105, 111, 110, 32, 55>>   \* "Diffusion 7"
        /\ stem = <<118, 97, 101>>                                                \* "vae"
              => title = <<86, 65, 69>>                                           \* "VAE"
        /\ stem = <<109, 121, 95, 110, 111, 116, 101, 115, 45, 118, 50>>          \* "my_notes-v2"
              => title = <<109, 121, 32, 110, 111, 116, 101, 115, 32, 118, 50>>   \* "my notes v2"

\* pretty_title has returned for the stem "chap03".
C7_Witness ==
    /\ tpc = "done"
    /\ stem = <<99, 104, 97, 112, 48, 51>>
    /\ title = <<99, 104, 97, 112, 48, 51>>

\* C8: two notes of a document that differ in (category key, file stem)
\* have different ids.
C8_DistinctIds ==
    doc # NoDoc =>
        \A i, j \in 1..Len(doc.notes) :
            <<doc.notes[i].category, Stem(doc.notes[i].fileName)>>
                # <<doc.notes[j].category, Stem(doc.notes[j].fileName)>>
            => doc.notes[i].id # doc.notes[j].id

\* C9: categories is the "all" entry with count = total, then one entry
\* per discovered category, in discovery order, whose count is at least 1
\* and is the number of notes of that category.
C9_CategorySummary ==
    doc # NoDoc =>
        /\ Len(doc.categories) = Len(discovered) + 1
        /\ doc.categories[1] = [key |-> AllKey, name |-> AllName, count |-> doc.total]
        /\ \A i \in 1..Len(discovered) :
              LET entry == doc.categories[i + 1]
              IN  /\ entry.key = discovered[i].key
                  /\ entry.name = discovered[i].name
                  /\ entry.count >= 1
                  /\ entry.count = Cardinality({n \in 1..Len(doc.notes) :
                                                  doc.notes[n].category = entry.key})

\* A document over three categories, one of them with two notes.
C9_Witness ==
    /\ doc # NoDoc
    /\ Len(doc.categories) = 4
    /\ \E i \in 2..4 : doc.categories[i].count = 2
    /\ \E i \in 2..4 : doc.categories[i].count = 1

\* C10: the output file has the content it had when the run started until
\* gather_notes has returned, and keeps it when mkdir or the scan fails.
C10_WriteOnlyAfterScan ==
    /\ pc \in {"start", "scan", "gather", "write"} => out = out_before
    /\ (pc = "failed" /\ err \in {"mkdir", "scan"}) => out = out_before

\* The scan of a second run failed, and the file still holds the document
\* of the first run.
C10_Witness ==
    /\ pc = "failed"
    /\ err = "scan"
    /\ out = prev_doc
    /\ prev_doc # NoDoc
    /\ Len(prev_doc.notes) > 0

====
